---- MODULE Spec2Model ----
(***************************************************************************)
(* Model of the homework-status polling bot (src/homework.py).             *)
(*                                                                         *)
(* Python values are tagged records: [str |-> s], [int |-> n],             *)
(* [null |-> TRUE], [list |-> <<...>>], [dict |-> f] with f a function     *)
(* from key strings to tagged values, so isinstance(x, dict) is            *)
(* "dict" \in DOMAIN x.  The texts of the program are Russian; the model   *)
(* carries an ASCII rendering of each text, one per source literal.        *)
(* A call either returns, [ok |-> v], or raises, [exc |-> [type, msg]].    *)
(***************************************************************************)
EXTENDS Integers, Sequences, FiniteSets, TLC

VARIABLES
    pc,          \* position of main: start, fetch, check, parse, compare,
                 \* except, finally, exited, crashed
    tokens,      \* (PRACTICUM_TOKEN, TELEGRAM_TOKEN, TELEGRAM_CHAT_ID)
    timestamp,   \* main's local timestamp (the cursor)
    prev_status, \* main's local prev_status
    prev_error,  \* main's local prev_error
    response,    \* main's local response
    homework,    \* main's local homework
    status,      \* main's local status
    error,       \* the exception bound by `except Exception as error`
    error_msg,   \* main's local error_msg
    raising,     \* exception propagating out of the try statement, or NoExc
    http,        \* history: what requests.get produced in this cycle
    cyc,         \* history: what the current cycle has done so far
    last         \* history: what the previous cycle did

vars == <<pc, tokens, timestamp, prev_status, prev_error, response, homework,
          status, error, error_msg, raising, http, cyc, last>>

(***************************************************************************)
(* Bounds of the model.                                                    *)
(***************************************************************************)
MaxHomeworks == 2   \* longest homeworks list the API returns
MaxDate == 2        \* largest current_date the API returns

(***************************************************************************)
(* Python values.                                                          *)
(***************************************************************************)
None == [null |-> TRUE]
Unbound == [unbound |-> TRUE]
NoExc == [noexc |-> TRUE]
PyStr(s) == [str |-> s]
PyInt(n) == [int |-> n]
PyList(s) == [list |-> s]
PyDict(f) == [dict |-> f]

Return(v) == [ok |-> v]
Raise(type, msg) == [exc |-> [type |-> type, msg |-> msg]]
Raised(r) == "exc" \in DOMAIN r

\* str(exception).  KeyError shows the repr of its argument.
\* BotAPIException is an OSError whose __init__ does not call the base
\* __init__, so its args stay empty and its str is the empty string; the
\* text is kept in its message attribute only.
ExcStr(e) ==
    IF e.type = "KeyError" THEN "'" \o e.msg \o "'"
    ELSE IF e.type = "BotAPIException" THEN ""
    ELSE e.msg

\* f'{value}' of a str or of None.
Format(v) == IF "str" \in DOMAIN v THEN v.str ELSE "None"

(***************************************************************************)
(* settings: the verdict map.                                              *)
(***************************************************************************)
HOMEWORK_VERDICTS ==
    [approved |-> "Work checked: the reviewer liked everything.",
     reviewing |-> "Work taken for review.",
     rejected |-> "Work checked: the reviewer has remarks."]

HTTP_OK == 200

(***************************************************************************)
(* check_tokens                                                            *)
(***************************************************************************)
Truthy(v) == v # None /\ v # PyStr("")

check_tokens_any(toks) == \E i \in DOMAIN toks : Truthy(toks[i])

check_tokens(toks) == \A i \in DOMAIN toks : Truthy(toks[i])

(***************************************************************************)
(* send_message: outcome is what bot.send_message did.                     *)
(***************************************************************************)
send_message(outcome, message) ==
    IF "sent" \in DOMAIN outcome THEN Return(None)
    ELSE IF "telegram_error" \in DOMAIN outcome
    THEN Raise("BotException",
               "Message sending error: " \o outcome.telegram_error)
    ELSE Raise("BotException",
               "Program operation failure: " \o outcome.exception)

(***************************************************************************)
(* get_api_answer: h is what requests.get did.                             *)
(***************************************************************************)
get_api_answer(h) ==
    IF "request_exception" \in DOMAIN h
    THEN \* the handler logs and falls through; response is not bound
         Raise("UnboundLocalError",
               "cannot access local variable 'response' where it is not associated with a value")
    ELSE IF h.status_code # HTTP_OK
    THEN Raise("BotAPIException",
               "Negative answer of the API service: " \o ToString(h.status_code))
    ELSE IF "json" \in DOMAIN h.body
    THEN Return(h.body.json)
    ELSE IF "invalid_json" \in DOMAIN h.body
    THEN Raise("BotJSONException",
               "json not recognized. Error: " \o h.body.invalid_json)
    ELSE Raise("BotException",
               "Unknown failure. Error: " \o h.body.exception)

(***************************************************************************)
(* check_response                                                          *)
(***************************************************************************)
\* an empty homeworks list is treated as an error
check_response_EmptyIsError(r) ==
    IF "dict" \notin DOMAIN r
    THEN Raise("TypeError", "Dictionary not received")
    ELSE IF "homeworks" \notin DOMAIN r.dict
    THEN Raise("KeyError", "Homeworks not found")
    ELSE IF "list" \notin DOMAIN r.dict["homeworks"]
    THEN Raise("TypeError", "List not received")
    ELSE IF Len(r.dict["homeworks"].list) = 0
    THEN Raise("BotException", "No new homeworks")
    ELSE Return(r.dict["homeworks"])

check_response(r) ==
    IF "dict" \notin DOMAIN r
    THEN Raise("TypeError", "Dictionary not received")
    ELSE IF "homeworks" \notin DOMAIN r.dict
    THEN Raise("KeyError", "Homeworks not found")
    ELSE IF "list" \notin DOMAIN r.dict["homeworks"]
    THEN Raise("TypeError", "List not received")
    ELSE Return(r.dict["homeworks"])

(***************************************************************************)
(* parse_status                                                            *)
(***************************************************************************)
DictGet(d, k, default) == IF k \in DOMAIN d.dict THEN d.dict[k] ELSE default

VerdictOf(st) ==
    IF "str" \in DOMAIN st /\ st.str \in DOMAIN HOMEWORK_VERDICTS
    THEN PyStr(HOMEWORK_VERDICTS[st.str])
    ELSE None

StatusText(name, verdict) ==
    "Status of the check of work \"" \o Format(name) \o "\" changed. "
        \o Format(verdict)

\* the name is read with get, so a missing name is rendered as None
parse_status_NameOptional(hw) ==
    IF "dict" \notin DOMAIN hw
    THEN Raise("TypeError", "string indices must be integers, not 'str'")
    ELSE LET st == DictGet(hw, "status", None)
             verdict == VerdictOf(st)
         IN  IF verdict = None
             THEN Raise("BotException", "Unexpected status: " \o Format(st))
             ELSE Return(PyStr(StatusText(DictGet(hw, "homework_name", None),
                                          verdict)))

\* the verdict is not tested against None
parse_status_NoVerdictCheck(hw) ==
    IF "dict" \notin DOMAIN hw
    THEN Raise("TypeError", "string indices must be integers, not 'str'")
    ELSE IF "homework_name" \notin DOMAIN hw.dict
    THEN Raise("BotException",
               "Status determination error: " \o ExcStr([type |-> "KeyError", msg |-> "homework_name"]))
    ELSE Return(PyStr(StatusText(hw.dict["homework_name"],
                                 VerdictOf(DictGet(hw, "status", None)))))

parse_status(hw) ==
    IF "dict" \notin DOMAIN hw
    THEN \* subscripting a str with a str key
         Raise("TypeError", "string indices must be integers, not 'str'")
    ELSE IF "homework_name" \notin DOMAIN hw.dict
    THEN Raise("BotException",
               "Status determination error: " \o ExcStr([type |-> "KeyError", msg |-> "homework_name"]))
    ELSE LET st == DictGet(hw, "status", None)
             verdict == VerdictOf(st)
         IN  IF verdict = None
             THEN Raise("BotException", "Unexpected status: " \o Format(st))
             ELSE Return(PyStr(StatusText(hw.dict["homework_name"], verdict)))

NoNewHomeworks == "No new completed homeworks"

(***************************************************************************)
(* The environment: secrets, API answers, bot outcomes.                    *)
(***************************************************************************)
TokenValues == {None, PyStr(""), PyStr("secret")}
TokenTuples == [1..3 -> TokenValues]

StartTimes == {1}
Dates == 2..MaxDate

HomeworkNames == {PyStr("X")}
HomeworkStatuses == {PyStr("approved"), PyStr("bogus"), None}

FieldValues(k) == IF k = "homework_name" THEN HomeworkNames ELSE HomeworkStatuses

HomeworkDicts ==
    {PyDict(f) : f \in
        {g \in UNION {[K -> HomeworkNames \cup HomeworkStatuses] :
                          K \in SUBSET {"homework_name", "status"}} :
            \A k \in DOMAIN g : g[k] \in FieldValues(k)}}

HeadHomeworks == HomeworkDicts \cup {PyStr("junk")}
TailHomeworks == {PyDict([status |-> PyStr("bogus")])}
Tails == UNION {[1..n -> TailHomeworks] : n \in 0..(MaxHomeworks - 1)}

HomeworkLists ==
    {<<>>} \cup {<<h>> \o t : h \in HeadHomeworks, t \in Tails}

HomeworksValues == {PyList(l) : l \in HomeworkLists} \cup {PyStr("junk")}
DateValues == {PyInt(d) : d \in Dates}

PayloadDicts ==
    {PyDict(f) : f \in
        {g \in UNION {[K -> HomeworksValues \cup DateValues] :
                          K \in SUBSET {"homeworks", "current_date"}} :
            \A k \in DOMAIN g :
                g[k] \in (IF k = "homeworks" THEN HomeworksValues ELSE DateValues)}}

Payloads == PayloadDicts \cup {PyList(<<>>)}

Bodies ==
    {[json |-> p] : p \in Payloads}
        \cup {[invalid_json |-> "Expecting value: line 1 column 1 (char 0)"],
              [exception |-> "The content for this response was already consumed"]}

ErrorBodies ==
    {[json |-> PyDict([homeworks |-> PyList(<<>>)])],
     [invalid_json |-> "Expecting value: line 1 column 1 (char 0)"]}

HttpOutcomes ==
    {[request_exception |-> "Connection refused"]}
        \cup {[status_code |-> HTTP_OK, body |-> b] : b \in Bodies}
        \cup {[status_code |-> c, body |-> b] : c \in {500}, b \in ErrorBodies}

BotOutcomes ==
    {[sent |-> TRUE], [telegram_error |-> "Timed out"],
     [exception |-> "Connection reset"]}

(***************************************************************************)
(* History of a cycle.                                                     *)
(***************************************************************************)
NewCycle ==
    [fetches |-> 0,       \* calls of get_api_answer
     failed |-> "",       \* stage whose exception reached the handler
     payload |-> Unbound, \* what get_api_answer returned
     start |-> Unbound,   \* Last-Sent Status, Last-Sent Error and cursor
                          \* when the payload was returned
     cand |-> Unbound,    \* candidate status text
     sends |-> 0,         \* send_message calls with the status text
     delivered |-> FALSE, \* the status text was delivered
     reports |-> 0,       \* send_message calls with an error message
     reported |-> FALSE,  \* the error message was delivered
     same |-> FALSE,      \* the payload equals the previous cycle's payload
     sleeps |-> 0]        \* completed sleeps

(***************************************************************************)
(* main                                                                    *)
(***************************************************************************)
Init ==
    /\ pc = "start"
    /\ tokens \in TokenTuples
    /\ timestamp = Unbound
    /\ prev_status = Unbound
    /\ prev_error = Unbound
    /\ response = Unbound
    /\ homework = Unbound
    /\ status = Unbound
    /\ error = Unbound
    /\ error_msg = Unbound
    /\ raising = NoExc
    /\ http = Unbound
    /\ cyc = NewCycle
    /\ last = NewCycle

\* lines 157-173
Startup ==
    /\ pc = "start"
    /\ IF ~check_tokens(tokens)
       THEN /\ pc' = "exited"
            /\ UNCHANGED <<timestamp, prev_status, prev_error>>
       ELSE /\ pc' = "fetch"
            /\ timestamp' \in {PyInt(t) : t \in StartTimes}
            /\ prev_status' = PyStr("")
            /\ prev_error' = PyStr("")
    /\ UNCHANGED <<tokens, response, homework, status, error, error_msg,
                   raising, http, cyc, last>>

\* line 176
GetApiAnswer ==
    /\ pc = "fetch"
    /\ \E h \in HttpOutcomes :
          LET r == get_api_answer(h)
              c == [NewCycle EXCEPT !.fetches = 1]
          IN  /\ http' = h
              /\ last' = [cyc EXCEPT !.payload = Unbound, !.start = Unbound,
                                      !.same = FALSE]
              /\ IF Raised(r)
                 THEN /\ error' = r.exc
                      /\ pc' = "except"
                      /\ cyc' = [c EXCEPT !.failed = "fetch"]
                      /\ UNCHANGED response
                 ELSE /\ response' = r.ok
                      /\ pc' = "check"
                      /\ cyc' = [c EXCEPT !.payload = r.ok,
                                          !.start = [prev_status |-> prev_status,
                                                     prev_error |-> prev_error,
                                                     timestamp |-> timestamp],
                                          !.same = (r.ok = cyc.payload)]
                      /\ UNCHANGED error
    /\ UNCHANGED <<tokens, timestamp, prev_status, prev_error, homework,
                   status, error_msg, raising>>

\* line 177
CheckResponse ==
    /\ pc = "check"
    /\ LET r == check_response(response)
       IN  IF Raised(r)
           THEN /\ error' = r.exc
                /\ pc' = "except"
                /\ cyc' = [cyc EXCEPT !.failed = "check"]
                /\ UNCHANGED homework
           ELSE /\ homework' = r.ok
                /\ pc' = "parse"
                /\ UNCHANGED <<error, cyc>>
    /\ UNCHANGED <<tokens, timestamp, prev_status, prev_error, response,
                   status, error_msg, raising, http, last>>

\* the last element of the list is parsed instead of the first
ParseStatus_LastElement ==
    /\ pc = "parse"
    /\ LET r == IF Len(homework.list) = 0
                THEN Return(PyStr(NoNewHomeworks))
                ELSE parse_status(homework.list[Len(homework.list)])
       IN  IF Raised(r)
           THEN /\ error' = r.exc
                /\ pc' = "except"
                /\ cyc' = [cyc EXCEPT !.failed = "parse"]
                /\ UNCHANGED status
           ELSE /\ status' = r.ok
                /\ pc' = "compare"
                /\ cyc' = [cyc EXCEPT !.cand = r.ok]
                /\ UNCHANGED error
    /\ UNCHANGED <<tokens, timestamp, prev_status, prev_error, response,
                   homework, error_msg, raising, http, last>>

\* lines 178-181
ParseStatus ==
    /\ pc = "parse"
    /\ LET r == IF Len(homework.list) = 0
                THEN Return(PyStr(NoNewHomeworks))
                ELSE parse_status(homework.list[1])
       IN  IF Raised(r)
           THEN /\ error' = r.exc
                /\ pc' = "except"
                /\ cyc' = [cyc EXCEPT !.failed = "parse"]
                /\ UNCHANGED status
           ELSE /\ status' = r.ok
                /\ pc' = "compare"
                /\ cyc' = [cyc EXCEPT !.cand = r.ok]
                /\ UNCHANGED error
    /\ UNCHANGED <<tokens, timestamp, prev_status, prev_error, response,
                   homework, error_msg, raising, http, last>>

StatusChanged_Always(new, prev) == TRUE

\* line 182
StatusChanged(new, prev) == new # prev

\* the cursor is advanced before the delivery is known to have succeeded
NotifyStatus_CursorFirst ==
    /\ pc = "compare"
    /\ StatusChanged(status, prev_status)
    /\ \E o \in BotOutcomes :
          LET r == send_message(o, status)
              c == [cyc EXCEPT !.sends = @ + 1]
          IN  /\ timestamp' = DictGet(response, "current_date", timestamp)
              /\ IF Raised(r)
                 THEN /\ error' = r.exc
                      /\ pc' = "except"
                      /\ cyc' = [c EXCEPT !.failed = "send"]
                      /\ UNCHANGED prev_status
                 ELSE /\ prev_status' = status
                      /\ pc' = "finally"
                      /\ cyc' = [c EXCEPT !.delivered = TRUE]
                      /\ UNCHANGED error
    /\ UNCHANGED <<tokens, prev_error, response, homework, status, error_msg,
                   raising, http, last>>

\* the status is recorded as sent before the delivery is known to have
\* succeeded
NotifyStatus_MarkFirst ==
    /\ pc = "compare"
    /\ StatusChanged(status, prev_status)
    /\ \E o \in BotOutcomes :
          LET r == send_message(o, status)
              c == [cyc EXCEPT !.sends = @ + 1]
          IN  /\ prev_status' = status
              /\ IF Raised(r)
                 THEN /\ error' = r.exc
                      /\ pc' = "except"
                      /\ cyc' = [c EXCEPT !.failed = "send"]
                      /\ UNCHANGED timestamp
                 ELSE /\ timestamp' = DictGet(response, "current_date", timestamp)
                      /\ pc' = "finally"
                      /\ cyc' = [c EXCEPT !.delivered = TRUE]
                      /\ UNCHANGED error
    /\ UNCHANGED <<tokens, prev_error, response, homework, status, error_msg,
                   raising, http, last>>

\* a delivered status also clears Last-Sent Error
NotifyStatus_ResetError ==
    /\ pc = "compare"
    /\ StatusChanged(status, prev_status)
    /\ \E o \in BotOutcomes :
          LET r == send_message(o, status)
              c == [cyc EXCEPT !.sends = @ + 1]
          IN  IF Raised(r)
              THEN /\ error' = r.exc
                   /\ pc' = "except"
                   /\ cyc' = [c EXCEPT !.failed = "send"]
                   /\ UNCHANGED <<prev_status, prev_error, timestamp>>
              ELSE /\ prev_status' = status
                   /\ prev_error' = PyStr("")
                   /\ timestamp' = DictGet(response, "current_date", timestamp)
                   /\ pc' = "finally"
                   /\ cyc' = [c EXCEPT !.delivered = TRUE]
                   /\ UNCHANGED error
    /\ UNCHANGED <<tokens, response, homework, status, error_msg,
                   raising, http, last>>

\* lines 182-185
NotifyStatus ==
    /\ pc = "compare"
    /\ StatusChanged(status, prev_status)
    /\ \E o \in BotOutcomes :
          LET r == send_message(o, status)
              c == [cyc EXCEPT !.sends = @ + 1]
          IN  IF Raised(r)
              THEN /\ error' = r.exc
                   /\ pc' = "except"
                   /\ cyc' = [c EXCEPT !.failed = "send"]
                   /\ UNCHANGED <<prev_status, timestamp>>
              ELSE /\ prev_status' = status
                   /\ timestamp' = DictGet(response, "current_date", timestamp)
                   /\ pc' = "finally"
                   /\ cyc' = [c EXCEPT !.delivered = TRUE]
                   /\ UNCHANGED error
    /\ UNCHANGED <<tokens, prev_error, response, homework, status, error_msg,
                   raising, http, last>>

\* lines 186-187
StatusUnchanged ==
    /\ pc = "compare"
    /\ ~StatusChanged(status, prev_status)
    /\ pc' = "finally"
    /\ UNCHANGED <<tokens, timestamp, prev_status, prev_error, response,
                   homework, status, error, error_msg, raising, http, cyc, last>>

\* line 190
ErrorMessage(e) == PyStr("Program failure: " \o ExcStr(e))

\* the reported message is stored in prev_status instead of prev_error
ReportError_SetsStatus ==
    /\ pc = "except"
    /\ error_msg' = ErrorMessage(error)
    /\ error_msg' # prev_error
    /\ \E o \in BotOutcomes :
          LET r == send_message(o, error_msg')
              c == [cyc EXCEPT !.reports = @ + 1]
          IN  IF Raised(r)
              THEN /\ raising' = r.exc
                   /\ cyc' = c
                   /\ UNCHANGED prev_status
              ELSE /\ prev_status' = error_msg'
                   /\ cyc' = [c EXCEPT !.reported = TRUE]
                   /\ UNCHANGED raising
    /\ error' = Unbound
    /\ pc' = "finally"
    /\ UNCHANGED <<tokens, timestamp, prev_error, response, homework, status,
                   http, last>>

\* a failed delivery of the error report is handled as a new error
ReportError_Recursive ==
    /\ pc = "except"
    /\ error_msg' = ErrorMessage(error)
    /\ error_msg' # prev_error
    /\ \E o \in BotOutcomes :
          LET r == send_message(o, error_msg')
              c == [cyc EXCEPT !.reports = @ + 1]
          IN  IF Raised(r)
              THEN /\ error' = r.exc
                   /\ pc' = "except"
                   /\ cyc' = c
                   /\ UNCHANGED prev_error
              ELSE /\ prev_error' = error_msg'
                   /\ error' = Unbound
                   /\ pc' = "finally"
                   /\ cyc' = [c EXCEPT !.reported = TRUE]
    /\ UNCHANGED <<tokens, timestamp, prev_status, response, homework, status,
                   raising, http, last>>

\* lines 189-194, error_msg != prev_error
ReportError ==
    /\ pc = "except"
    /\ error_msg' = ErrorMessage(error)
    /\ error_msg' # prev_error
    /\ \E o \in BotOutcomes :
          LET r == send_message(o, error_msg')
              c == [cyc EXCEPT !.reports = @ + 1]
          IN  IF Raised(r)
              THEN /\ raising' = r.exc
                   /\ cyc' = c
                   /\ UNCHANGED prev_error
              ELSE /\ prev_error' = error_msg'
                   /\ cyc' = [c EXCEPT !.reported = TRUE]
                   /\ UNCHANGED raising
    /\ error' = Unbound
    /\ pc' = "finally"
    /\ UNCHANGED <<tokens, timestamp, prev_status, response, homework, status,
                   http, last>>

\* lines 189-191 and 194, error_msg == prev_error
LogError ==
    /\ pc = "except"
    /\ error_msg' = ErrorMessage(error)
    /\ error_msg' = prev_error
    /\ error' = Unbound
    /\ pc' = "finally"
    /\ UNCHANGED <<tokens, timestamp, prev_status, prev_error, response,
                   homework, status, raising, http, cyc, last>>

\* the sleep is the last statement of the try block, not a finally clause
Sleep_SkippedOnError ==
    /\ pc = "finally"
    /\ cyc' = [cyc EXCEPT !.sleeps = IF cyc.failed = "" THEN @ + 1 ELSE @]
    /\ pc' = IF raising # NoExc THEN "crashed" ELSE "fetch"
    /\ UNCHANGED <<tokens, timestamp, prev_status, prev_error, response,
                   homework, status, error, error_msg, raising, http, last>>

\* lines 195-196, then line 174 or the exception leaves main.  Nothing is
\* assigned: the locals keep the values of the finished cycle.
Sleep ==
    /\ pc = "finally"
    /\ cyc' = [cyc EXCEPT !.sleeps = @ + 1]
    /\ pc' = IF raising # NoExc THEN "crashed" ELSE "fetch"
    /\ UNCHANGED <<tokens, timestamp, prev_status, prev_error, response,
                   homework, status, error, error_msg, raising, http, last>>

Next ==
    \/ Startup
    \/ GetApiAnswer
    \/ CheckResponse
    \/ ParseStatus
    \/ NotifyStatus
    \/ StatusUnchanged
    \/ ReportError
    \/ LogError
    \/ Sleep

Spec == Init /\ [][Next]_vars

TypeOK ==
    /\ pc \in {"start", "fetch", "check", "parse", "compare", "except",
                "finally", "exited", "crashed"}
    /\ tokens \in TokenTuples

(***************************************************************************)
(* Claims.                                                                 *)
(***************************************************************************)

\* line 80: the message get_api_answer logs for a transport failure
TransportFailureMsg(h) ==
    "API service answer not received. Error: " \o h.request_exception

TransportFailed == "request_exception" \in DOMAIN http
ReceivedNotOK == "status_code" \in DOMAIN http /\ http.status_code # HTTP_OK
AfterFetch == pc = "check" \/ (pc = "except" /\ cyc.failed = "fetch")
EarlyFailure == cyc.failed \in {"fetch", "check", "parse"}

\* C1: once the startup check has passed, main never terminates: no outcome
\* of fetch, validation, parsing or delivery, a failed delivery of an error
\* report included, ends the process.
C1_MainNeverTerminates ==
    check_tokens(tokens) => pc \notin {"exited", "crashed"}

\* C2: the cursor changes only in the step that delivers a changed status,
\* where it becomes the response's current_date or stays as it was when
\* current_date is absent; every other step of the loop keeps it.
C2_CursorAdvance ==
    [][pc # "start" =>
        IF pc = "compare" /\ status # prev_status /\ cyc'.delivered
        THEN timestamp' = IF "current_date" \in DOMAIN cyc.payload.dict
                          THEN cyc.payload.dict["current_date"]
                          ELSE timestamp
        ELSE timestamp' = timestamp]_vars

C2_Witness ==
    /\ pc = "finally"
    /\ cyc.delivered
    /\ last.delivered
    /\ "current_date" \in DOMAIN cyc.payload.dict
    /\ timestamp = PyInt(MaxDate)

\* C3: a cycle whose candidate equals Last-Sent Status attempts no delivery;
\* when a cycle fetches the payload the previous cycle fetched and the
\* previous cycle delivered its status, the two cycles together send exactly
\* one message.
C3_StatusDeduplication ==
    /\ [][(pc = "compare" /\ status = prev_status) =>
            (cyc'.sends = 0 /\ pc' = "finally")]_vars
    /\ []((cyc.same /\ last.delivered /\ cyc.sleeps = 1) =>
            (last.sends + last.reports + cyc.sends + cyc.reports = 1))

C3_Witness ==
    /\ cyc.same
    /\ last.delivered
    /\ cyc.sleeps = 1
    /\ cyc.cand = prev_status
    /\ cyc.sends = 0

\* C4: from the step in which the delivery of a changed status fails to the
\* end of that cycle Last-Sent Status and the cursor keep their values, and
\* a next cycle that produces the same candidate attempts the delivery again.
C4_RetryAfterFailedDelivery ==
    /\ [][cyc'.failed = "send" =>
            (prev_status' = prev_status /\ timestamp' = timestamp)]_vars
    /\ []((last.failed = "send" /\ cyc.cand = last.cand /\ pc # "compare") =>
            cyc.sends = 1)

C4_Witness ==
    /\ last.failed = "send"
    /\ cyc.cand = last.cand
    /\ cyc.sends = 1
    /\ cyc.delivered

\* C5: a cycle in which the delivery of the status text failed builds and
\* sends no error report and leaves Last-Sent Error unchanged.
C5_DeliveryFailureNotReported ==
    [][cyc'.failed = "send" =>
        (cyc'.reports = 0 /\ prev_error' = prev_error)]_vars

\* C6: in a cycle that failed in fetch, validation or parsing, an error
\* message that differs from Last-Sent Error gets exactly one delivery
\* attempt and becomes Last-Sent Error; one that equals Last-Sent Error gets
\* no delivery attempt.
C6_ErrorDeduplication ==
    [][(pc = "except" /\ EarlyFailure) =>
        IF ErrorMessage(error) # prev_error
        THEN cyc'.reports = 1 /\ prev_error' = ErrorMessage(error)
        ELSE cyc'.reports = 0 /\ prev_error' = prev_error]_vars

\* C7: every cycle ends with exactly one sleep, whichever branch it took,
\* and the sleep is the last thing the cycle does: a fetch is preceded by
\* the completed sleep of the previous cycle.
C7_SleepEveryCycle ==
    /\ cyc.fetches <= 1
    /\ cyc.sleeps <= 1
    /\ cyc.sleeps = 1 => pc \in {"fetch", "crashed"}
    /\ (pc \in {"fetch", "crashed"} /\ cyc.fetches = 1) => cyc.sleeps = 1
    /\ last.fetches = 1 => last.sleeps = 1
    /\ pc \in {"check", "parse", "compare", "except", "finally"} =>
            (cyc.fetches = 1 /\ cyc.sleeps = 0)

C7_Witness ==
    /\ last.fetches = 1
    /\ last.failed = "send"
    /\ last.reports = 1
    /\ last.sleeps = 1
    /\ cyc.fetches = 1
    /\ cyc.failed = "parse"
    /\ cyc.sleeps = 1

SecretMissing(i) == tokens[i] \in {None, PyStr("")}

\* C8: with a secret missing main terminates in its first step, before any
\* fetch, delivery or sleep; with all three present the loop is entered
\* with Last-Sent Status and Last-Sent Error empty.
C8_StartupPrecondition ==
    /\ []((\E i \in 1..3 : SecretMissing(i)) =>
            (pc \in {"start", "exited"} /\ cyc = NewCycle /\ last = NewCycle))
    /\ [][pc = "start" =>
            IF \E i \in 1..3 : SecretMissing(i)
            THEN pc' = "exited"
            ELSE /\ pc' = "fetch"
                 /\ prev_status' = PyStr("")
                 /\ prev_error' = PyStr("")]_vars

C8_Witness ==
    /\ pc = "exited"
    /\ ~SecretMissing(1)
    /\ ~SecretMissing(2)
    /\ SecretMissing(3)

\* C9: when the transport fails, get_api_answer raises an error that reports
\* the transport failure, and does not go on to read the status code of the
\* response it never received.
C9_TransportFailureReported ==
    (pc = "except" /\ cyc.failed = "fetch" /\ TransportFailed) =>
        (error.type # "UnboundLocalError"
            /\ error.msg = TransportFailureMsg(http))

\* C10: for a received response get_api_answer raises APIError when the
\* status is not OK, MalformedResponse when the body of an OK response is
\* not JSON, and returns the decoded payload otherwise; after an APIError
\* the loop sleeps and polls again.
C10_ReceivedResponse ==
    /\ (AfterFetch /\ ReceivedNotOK) =>
            (pc = "except" /\ error.type = "BotAPIException"
                /\ cyc.payload = Unbound)
    /\ (AfterFetch /\ ~TransportFailed /\ ~ReceivedNotOK) =>
            IF "json" \in DOMAIN http.body
            THEN pc = "check" /\ response = http.body.json
            ELSE pc = "except" /\ cyc.payload = Unbound
                    /\ ("invalid_json" \in DOMAIN http.body
                            => error.type = "BotJSONException")
    /\ (ReceivedNotOK /\ cyc.sleeps = 1) => pc = "fetch"

Contains(s, t) ==
    \E i \in 1..(Len(s) - Len(t) + 1) : SubSeq(s, i, i + Len(t) - 1) = t

IsMapping(p) == "dict" \in DOMAIN p
WellShaped(p) ==
    /\ IsMapping(p)
    /\ "homeworks" \in DOMAIN p.dict
    /\ "list" \in DOMAIN p.dict["homeworks"]
\* C11: check_response raises a TypeError or a KeyError and returns nothing
\* for a payload that is not a mapping, has no homeworks key or whose
\* homeworks is not a list, so that homework keeps the value it had before
\* the call; for any other payload it returns the homeworks list itself, the
\* empty list included.
C11_CheckResponse ==
    [][pc = "check" =>
        IF WellShaped(response)
        THEN pc' = "parse" /\ homework' = response.dict["homeworks"]
        ELSE /\ pc' = "except"
             /\ error'.type \in {"TypeError", "KeyError"}
             /\ homework' = homework]_vars

C11_Witness ==
    /\ pc = "parse"
    /\ WellShaped(cyc.payload)
    /\ homework = PyList(<<>>)

MappedStatuses == {PyStr(k) : k \in DOMAIN HOMEWORK_VERDICTS}
Named(hw) == "homework_name" \in DOMAIN hw.dict
Mapped(hw) == "status" \in DOMAIN hw.dict /\ hw.dict["status"] \in MappedStatuses

\* C12: for a submission without homework_name, or whose status is absent,
\* None or not a key of the verdict map, parse_status raises BotException
\* and returns nothing, so that status keeps the value it had before the
\* call; for a submission with a name and a mapped status it returns a text
\* that contains the name and the verdict of that status.
C12_ParseStatus ==
    [][(pc = "parse" /\ Len(homework.list) > 0
            /\ IsMapping(homework.list[1])) =>
        LET hw == homework.list[1]
        IN  IF Named(hw) /\ Mapped(hw)
            THEN /\ pc' = "compare"
                 /\ Contains(status'.str, hw.dict["homework_name"].str)
                 /\ Contains(status'.str,
                             HOMEWORK_VERDICTS[hw.dict["status"].str])
            ELSE /\ pc' = "except"
                 /\ error'.type = "BotException"
                 /\ status' = status]_vars

C12_Witness ==
    /\ pc = "compare"
    /\ Len(homework.list) > 0
    /\ Named(homework.list[1])
    /\ DictGet(homework.list[1], "status", None) = PyStr("approved")
    /\ Contains(status.str, HOMEWORK_VERDICTS["approved"])

HeadUnmapped(p) ==
    /\ WellShaped(p)
    /\ Len(p.dict["homeworks"].list) > 0
    /\ IsMapping(p.dict["homeworks"].list[1])
    /\ ~Mapped(p.dict["homeworks"].list[1])

\* C13: a cycle whose first submission has a status outside the verdict map
\* makes no delivery attempt of a status text and leaves Last-Sent Status
\* and the cursor as they were; it ends in the error handler.
C13_UnmappedStatus ==
    /\ [][HeadUnmapped(cyc'.payload) =>
            /\ cyc'.sends = 0
            /\ prev_status' = prev_status
            /\ timestamp' = timestamp]_vars
    /\ []((HeadUnmapped(cyc.payload) /\ cyc.sleeps = 1) =>
            (cyc.failed = "parse" /\ cyc.cand = Unbound /\ ~cyc.delivered))

C13_Witness ==
    /\ HeadUnmapped(cyc.payload)
    /\ Named(cyc.payload.dict["homeworks"].list[1])
    /\ DictGet(cyc.payload.dict["homeworks"].list[1], "status", None)
            = PyStr("bogus")
    /\ "current_date" \in DOMAIN cyc.payload.dict
    /\ cyc.reported
    /\ cyc.sleeps = 1

EmptyList(p) == WellShaped(p) /\ Len(p.dict["homeworks"].list) = 0

\* C14: a cycle whose validated homeworks list is empty takes the fixed text
\* as its candidate, attempts its delivery exactly when it differs from
\* Last-Sent Status, produces no error report and leaves Last-Sent Error
\* unchanged.
C14_EmptyListCycle ==
    [][EmptyList(cyc'.payload) =>
        /\ cyc'.cand \in {Unbound, PyStr(NoNewHomeworks)}
        /\ pc = "compare" => (cyc'.sends = 1 <=> status # prev_status)
        /\ cyc'.reports = 0
        /\ prev_error' = prev_error]_vars

\* C16: no step of a cycle that has not failed changes Last-Sent Error, and
\* an error whose message equals Last-Sent Error is only logged, also when
\* cycles without failure lie between it and the report of that message.
C16_ErrorNeverCleared ==
    /\ [][(pc # "start" /\ cyc'.failed = "") =>
            prev_error' = prev_error]_vars
    /\ [][(pc = "except" /\ ErrorMessage(error) = prev_error) =>
            (cyc'.reports = 0 /\ pc' = "finally" /\ raising' = NoExc)]_vars

C16_Witness ==
    /\ last.fetches = 1
    /\ last.failed = ""
    /\ last.sends = 0
    /\ pc = "finally"
    /\ EarlyFailure
    /\ error_msg = prev_error
    /\ cyc.reports = 0

StatusTexts ==
    {PyStr(NoNewHomeworks)}
        \cup {PyStr(StatusText(n, PyStr(HOMEWORK_VERDICTS[k]))) :
                n \in HomeworkNames, k \in DOMAIN HOMEWORK_VERDICTS}

\* C17: Last-Sent Status is the empty string or a status text; it changes
\* only in the step that delivers a status text, to that text, and every
\* delivered status text is stored in it.
C17_LastSentStatus ==
    /\ [](pc \notin {"start", "exited"} =>
            (prev_status = PyStr("") \/ prev_status \in StatusTexts))
    /\ [][(pc # "start" /\ prev_status' # prev_status) =>
            (pc = "compare" /\ cyc'.delivered /\ prev_status' = status)]_vars
    /\ [][(cyc'.delivered /\ ~cyc.delivered) =>
            prev_status' = cyc'.cand]_vars

C17_Witness ==
    /\ prev_status \in StatusTexts
    /\ cyc.failed = "send"
    /\ cyc.cand # prev_status
    /\ cyc.reported
    /\ last.failed = "parse"
    /\ last.reported

\* C18: a cycle makes one call of get_api_answer, at most one delivery
\* attempt of a status text and at most one of an error report; after a
\* failed delivery of the error report nothing more is sent in the cycle.
C18_OneAttemptEach ==
    /\ cyc.fetches <= 1 /\ cyc.sends <= 1 /\ cyc.reports <= 1
    /\ last.fetches <= 1 /\ last.sends <= 1 /\ last.reports <= 1
    /\ pc \in {"check", "parse", "compare", "except", "finally", "crashed"}
            => cyc.fetches = 1
    /\ raising # NoExc =>
            (cyc.reports = 1 /\ ~cyc.reported /\ pc \in {"finally", "crashed"})

C18_Witness ==
    /\ pc = "crashed"
    /\ cyc.fetches = 1
    /\ cyc.sends = 1
    /\ cyc.reports = 1

\* q is a validated payload with the first element and the current_date of
\* the validated payload p
SameFirstAndDate(p, q) ==
    /\ WellShaped(p) /\ WellShaped(q)
    /\ Len(p.dict["homeworks"].list) > 0
    /\ Len(q.dict["homeworks"].list) > 0
    /\ p.dict["homeworks"].list[1] = q.dict["homeworks"].list[1]
    /\ ("current_date" \in DOMAIN p.dict) = ("current_date" \in DOMAIN q.dict)
    /\ "current_date" \in DOMAIN p.dict =>
            p.dict["current_date"] = q.dict["current_date"]

\* what a cycle that received payload p in loop state st leaves behind, when
\* bot.send_message does o1 for the status text and o2 for the error report
CycleOutcome(st, p, o1, o2) ==
    LET none == [cand |-> Unbound, sends |-> 0, reports |-> 0,
                 prev_status |-> st.prev_status,
                 prev_error |-> st.prev_error,
                 timestamp |-> st.timestamp, crashed |-> FALSE]
        Handled(e, sofar) ==
            LET msg == ErrorMessage(e)
            IN  IF msg = st.prev_error THEN sofar
                ELSE IF Raised(send_message(o2, msg))
                THEN [sofar EXCEPT !.reports = 1, !.crashed = TRUE]
                ELSE [sofar EXCEPT !.reports = 1, !.prev_error = msg]
        first == parse_status(p.dict["homeworks"].list[1])
    IN  IF Raised(first) THEN Handled(first.exc, none)
        ELSE IF first.ok = st.prev_status
        THEN [none EXCEPT !.cand = first.ok]
        ELSE IF Raised(send_message(o1, first.ok))
        THEN Handled(send_message(o1, first.ok).exc,
                     [none EXCEPT !.cand = first.ok, !.sends = 1])
        ELSE [none EXCEPT !.cand = first.ok, !.sends = 1,
                          !.prev_status = first.ok,
                          !.timestamp = DictGet(p, "current_date", st.timestamp)]

Observed ==
    [cand |-> cyc.cand, sends |-> cyc.sends, reports |-> cyc.reports,
     prev_status |-> prev_status, prev_error |-> prev_error,
     timestamp |-> timestamp, crashed |-> (raising # NoExc)]

\* C15: at the end of a cycle with a non-empty validated list, the candidate,
\* the delivery attempts and the resulting Last-Sent Status, Last-Sent Error
\* and cursor are what every payload with the same first element and the
\* same current_date leads to from the loop state the cycle started in,
\* under the same outcomes of bot.send_message.
C15_OnlyFirstElement ==
    (pc = "finally" /\ SameFirstAndDate(cyc.payload, cyc.payload)) =>
        \E o1, o2 \in BotOutcomes :
            \A q \in Payloads :
                SameFirstAndDate(cyc.payload, q) =>
                    Observed = CycleOutcome(cyc.start, q, o1, o2)

C15_Witness ==
    /\ pc = "finally"
    /\ WellShaped(cyc.payload)
    /\ Len(cyc.payload.dict["homeworks"].list) = MaxHomeworks
    /\ ~Named(cyc.payload.dict["homeworks"].list[MaxHomeworks])
    /\ cyc.delivered
    /\ timestamp # cyc.start.timestamp

====
